---------------------------- MODULE Spec2Model ----------------------------
(***************************************************************************)
(* A model of src/src/fs.rs: the FAT boot-record decoder, the geometry     *)
(* derived by FatFileSystem::new, and the FatSlice byte-range reader.       *)
(*                                                                         *)
(* Machine integers.  The code computes in u16, u32, u64 and i64.  A       *)
(* machine word is modelled as the sequence of its bytes, least            *)
(* significant first (the order in which the boot sector stores them), so  *)
(* that every width of the code is its true width; u8 and u16 values that  *)
(* are only compared or used as a small factor are plain integers.  An      *)
(* overflowing operation has the two outcomes a Rust build can produce:    *)
(* a panic (overflow checks on, the debug profile) or the wrapped value    *)
(* (overflow checks off, the release profile); `profile' selects the build.*)
(***************************************************************************)
EXTENDS Integers, Sequences, FiniteSets, TLC

(***************************************************************************)
(* Exact natural-number arithmetic on little-endian byte sequences.        *)
(***************************************************************************)
Min(a, b) == IF a <= b THEN a ELSE b
Max(a, b) == IF a >= b THEN a ELSE b

\* n zero bytes
Zeros(n) == SubSeq([i \in 1..n |-> 0], 1, n)

\* a extended with zero bytes (or cut) to exactly n bytes: a mod 256^n
Trunc(a, n) == IF Len(a) >= n THEN SubSeq(a, 1, n) ELSE a \o Zeros(n - Len(a))

\* whether the value of a is below 256^n
Fits(a, n) == \A i \in 1..Len(a) : i > n => a[i] = 0

\* the n-byte little-endian form of a small integer v >= 0
RECURSIVE Bytes(_, _)
Bytes(v, n) == IF n = 0 THEN << >> ELSE <<v % 256>> \o Bytes(v \div 256, n - 1)

\* the value of a, for values the model checker's integers can hold
RECURSIVE Val(_)
Val(a) == IF Len(a) = 0 THEN 0 ELSE a[1] + 256 * Val(Tail(a))

RECURSIVE AddFrom(_, _, _, _)
\* bytes i.. of a + b + carry, for a and b of one length
AddFrom(a, b, i, carry) ==
    IF i > Len(a) THEN << >>
    ELSE <<(a[i] + b[i] + carry) % 256>>
         \o AddFrom(a, b, i + 1, (a[i] + b[i] + carry) \div 256)

\* a + b, exact (one byte longer than the longer operand)
NAdd(a, b) ==
    LET n == Max(Len(a), Len(b)) + 1
    IN  AddFrom(Trunc(a, n), Trunc(b, n), 1, 0)

RECURSIVE NLessFrom(_, _, _)
NLessFrom(a, b, i) ==
    IF i = 0 THEN FALSE
    ELSE IF a[i] # b[i] THEN a[i] < b[i]
    ELSE NLessFrom(a, b, i - 1)

\* a < b
NLess(a, b) ==
    LET n == Max(Len(a), Len(b))
    IN  NLessFrom(Trunc(a, n), Trunc(b, n), n)

NLeq(a, b) == ~NLess(b, a)

NEq(a, b) == ~NLess(a, b) /\ ~NLess(b, a)

RECURSIVE SubFrom(_, _, _, _)
\* bytes i.. of a - b - borrow modulo 256^Len(a), for a and b of one length
SubFrom(a, b, i, borrow) ==
    IF i > Len(a) THEN << >>
    ELSE <<(a[i] - b[i] - borrow + 256) % 256>>
         \o SubFrom(a, b, i + 1, IF a[i] - b[i] - borrow < 0 THEN 1 ELSE 0)

\* a - b modulo 256^n (exact when b <= a < 256^n)
NSubMod(a, b, n) == SubFrom(Trunc(a, n), Trunc(b, n), 1, 0)

RECURSIVE MulFrom(_, _, _, _)
MulFrom(a, m, i, carry) ==
    IF i > Len(a) THEN << >>
    ELSE <<(a[i] * m + carry) % 256>>
         \o MulFrom(a, m, i + 1, (a[i] * m + carry) \div 256)

\* a * m, exact, for a factor 0 <= m < 65536 (three bytes longer than a)
NMul(a, m) == MulFrom(Trunc(a, Len(a) + 3), m, 1, 0)

RECURSIVE DivFrom(_, _, _, _)
\* long division from the top byte: bytes i..1 of the quotient, given the
\* remainder carried in from the bytes above
DivFrom(a, d, i, rem) ==
    IF i = 0 THEN << >>
    ELSE DivFrom(a, d, i - 1, (rem * 256 + a[i]) % d)
         \o <<(rem * 256 + a[i]) \div d>>

\* a \div d, exact, for a divisor 0 < d < 65536
NDiv(a, d) == DivFrom(a, d, Len(a), 0)

(***************************************************************************)
(* Machine arithmetic at a width of w bytes: the wrapped value and whether *)
(* the exact result overflowed the width.                                  *)
(***************************************************************************)
AddW(a, b, w) ==
    LET s == NAdd(Trunc(a, w), Trunc(b, w))
    IN  [v |-> Trunc(s, w), ovf |-> ~Fits(s, w)]

SubW(a, b, w) ==
    [v |-> NSubMod(a, b, w), ovf |-> NLess(Trunc(a, w), Trunc(b, w))]

\* a * m for a factor m that is a u8 or u16 of the code
MulW(a, m, w) ==
    LET p == NMul(Trunc(a, w), m)
    IN  [v |-> Trunc(p, w), ovf |-> ~Fits(p, w)]

DivW(a, d, w) == Trunc(NDiv(Trunc(a, w), d), w)

VARIABLES
    profile,    \* "debug" (overflow checks: a panic) or "release" (wrapping)
    image,      \* FatFileSystem::new's rdr: the geometry and signature its first
                \* sector holds, and its length in bytes
    opened,     \* what FatFileSystem::new returned, "none" before the call
    query,      \* the last sector_from_cluster call: its argument and result
    stream,     \* FatSlice's state.rdr: the bytes of the backing stream
    rdr_pos,    \* FatSlice's state.rdr: the position the last operation left
    rdr_by,     \* the slice whose read left the stream there, 0 before any
    slices,     \* the live FatSlice values: begin, size, offset
    last        \* the last FatSlice call: its arguments and what it returned

fsvars == <<image, opened, query>>
slvars == <<stream, rdr_pos, rdr_by, slices, last>>
vars == <<profile, image, opened, query, stream, rdr_pos, rdr_by, slices, last>>

Profiles == {"debug", "release"}

\* an overflowed operation panics exactly when the build checks overflow
Panics(r) == r.ovf /\ profile = "debug"

(***************************************************************************)
(* The streams handed to FatFileSystem::new.  A stream is described by the  *)
(* geometry and the signature its first sector holds (BootSector lays them  *)
(* out as bytes, and the decoder reads those bytes) and by its length.      *)
(* Three families: geometries on a long stream, streams cut inside the      *)
(* first sector, and first sectors with a wrong signature.                  *)
(***************************************************************************)
U32Max == <<255, 255, 255, 255>>

Bpb(bps, spc, reserved, fats, root_entries, total16, total32, spf16, spf32) ==
    [bytes_per_sector |-> bps, sectors_per_cluster |-> spc,
     reserved_sectors |-> reserved, fats |-> fats, root_entries |-> root_entries,
     total_sectors_16 |-> total16, total_sectors_32 |-> total32,
     sectors_per_fat_16 |-> spf16, sectors_per_fat_32 |-> spf32]

\* the 512 bytes of a boot sector holding the geometry d and the signature sig
BootSector(d, sig) ==
    LET common ==
            <<235, 60, 144>> \o <<77, 83, 68, 79, 83, 53, 46, 48>>
            \o Bytes(d.bytes_per_sector, 2) \o Bytes(d.sectors_per_cluster, 1)
            \o Bytes(d.reserved_sectors, 2) \o Bytes(d.fats, 1)
            \o Bytes(d.root_entries, 2) \o Bytes(d.total_sectors_16, 2)
            \o <<248>> \o Bytes(d.sectors_per_fat_16, 2)
            \o Bytes(63, 2) \o Bytes(255, 2) \o Zeros(4) \o d.total_sectors_32
        fat32 ==
            d.sectors_per_fat_32 \o Zeros(2) \o Zeros(2) \o Bytes(2, 4)
            \o Bytes(1, 2) \o Bytes(6, 2) \o Zeros(12)
        tail ==
            <<128, 0, 41>> \o <<120, 86, 52, 18>>
            \o <<78, 79, 32, 78, 65, 77, 69, 32, 32, 32, 32>>
            \o <<70, 65, 84, 32, 32, 32, 32, 32>>
    IN  IF d.sectors_per_fat_16 = 0
        THEN common \o fat32 \o tail \o Zeros(420) \o sig
        ELSE common \o tail \o Zeros(448) \o sig

\* the bytes of the stream img that lie in its first sector
StreamBytes(img) == SubSeq(BootSector(img.bpb, img.sig), 1, Min(512, img.len))

GoodSig == <<85, 170>>
BadSigs == {<<0, 0>>, <<85, 0>>, <<0, 170>>, <<170, 85>>}

\* a stream long enough for every table region the geometries below describe
LongStream == 1073741824

\* total sector counts: below any data region, around the two variant
\* boundaries for a first data sector of 51, and the largest u32
TotalSectors ==
    {<<10, Zeros(4)>>, <<51 + 4084, Zeros(4)>>, <<51 + 4085, Zeros(4)>>,
     <<0, Bytes(51 + 65524, 4)>>, <<0, Bytes(51 + 65525, 4)>>, <<0, U32Max>>}

SectorsPerFat == {<<9, Zeros(4)>>, <<0, Bytes(1000, 4)>>, <<0, Bytes(16777216, 4)>>}

Geometries ==
    {Bpb(bps, spc, reserved, 2, root, t[1], t[2], f[1], f[2]) :
        bps \in {0, 512, 4096}, spc \in {0, 1, 4}, reserved \in {1, 32},
        root \in {0, 512, 2048}, t \in TotalSectors, f \in SectorsPerFat}

Floppy == Bpb(512, 1, 1, 2, 224, 2880, Zeros(4), 9, Zeros(4))
Fat32Disk == Bpb(512, 8, 32, 2, 0, 0, Bytes(1048576, 4), 0, Bytes(1024, 4))
\* a geometry whose table region is empty and starts at offset 0
NoTable == Bpb(512, 1, 0, 2, 0, 100, Zeros(4), 0, Zeros(4))

Images ==
    {[bpb |-> d, sig |-> GoodSig, len |-> LongStream] : d \in Geometries}
    \cup {[bpb |-> d, sig |-> GoodSig, len |-> n] :
            d \in {Floppy, Fat32Disk, NoTable}, n \in 0..511}
    \cup {[bpb |-> d, sig |-> sig, len |-> n] :
            d \in {Floppy, Fat32Disk, NoTable}, sig \in BadSigs, n \in {512, LongStream}}

(***************************************************************************)
(* The boot sector as FatFileSystem::read_boot_record reads it: a list of  *)
(* fields in stream order, each read either with Read::read (a partial     *)
(* read at the end of the stream goes unnoticed) or with read_exact /      *)
(* read_uN (the end of the stream inside the field is UnexpectedEof).      *)
(***************************************************************************)
Field(name, width, exact) == [name |-> name, width |-> width, exact |-> exact]

HeadFields == <<
    Field("bootjmp", 3, FALSE),
    Field("oem_name", 8, FALSE) >>

CommonFields == <<
    Field("bytes_per_sector", 2, TRUE),
    Field("sectors_per_cluster", 1, TRUE),
    Field("reserved_sectors", 2, TRUE),
    Field("fats", 1, TRUE),
    Field("root_entries", 2, TRUE),
    Field("total_sectors_16", 2, TRUE),
    Field("media", 1, TRUE),
    Field("sectors_per_fat_16", 2, TRUE),
    Field("sectors_per_track", 2, TRUE),
    Field("heads", 2, TRUE),
    Field("hidden_sectors", 4, TRUE),
    Field("total_sectors_32", 4, TRUE) >>

Fat32Fields == <<
    Field("sectors_per_fat_32", 4, TRUE),
    Field("extended_flags", 2, TRUE),
    Field("fs_version", 2, TRUE),
    Field("root_dir_first_cluster", 4, TRUE),
    Field("fs_info_sector", 2, TRUE),
    Field("backup_boot_sector", 2, TRUE),
    Field("reserved_0", 12, FALSE) >>

LegacyFields == <<
    Field("drive_num", 1, TRUE),
    Field("reserved_1", 1, TRUE),
    Field("ext_sig", 1, TRUE),
    Field("volume_id", 4, TRUE),
    Field("volume_label", 11, FALSE),
    Field("fs_type_label", 8, FALSE) >>

BootCode(n) == << Field("boot_code", n, TRUE) >>

SigFields == << Field("boot_sig", 2, FALSE) >>

AllFields ==
    HeadFields \o CommonFields \o Fat32Fields \o LegacyFields \o BootCode(448) \o SigFields

\* the declared length of a field of FatBootRecord / FatBiosParameterBlock
WidthOf(name) == AllFields[CHOOSE i \in 1..Len(AllFields) : AllFields[i].name = name].width

\* Default::default() of FatBootRecord and FatBiosParameterBlock: every field zero
DefaultBoot ==
    [n \in {AllFields[i].name : i \in 1..Len(AllFields)} |-> Zeros(WidthOf(n))]

\* the reader before the first read: position 0, nothing failed, all fields default
Reader0 == [pos |-> 0, ok |-> TRUE, boot |-> DefaultBoot]

\* one read of field f from img at the reader's position
ReadField(img, st, f) ==
    IF ~st.ok THEN st
    ELSE LET avail == Max(0, Len(img) - st.pos)
             n == Min(f.width, avail)
             old == st.boot[f.name]
             got == SubSeq(img, st.pos + 1, st.pos + n)
                    \o SubSeq(old, n + 1, Len(old))
         IN  IF f.exact /\ avail < f.width
             THEN [st EXCEPT !.ok = FALSE, !.pos = st.pos + n]
             ELSE [pos |-> st.pos + n, ok |-> TRUE,
                   boot |-> [st.boot EXCEPT ![f.name] = got]]

RECURSIVE ReadFields(_, _, _)
ReadFields(img, st, fields) ==
    IF Len(fields) = 0 THEN st
    ELSE ReadFields(img, ReadField(img, st, Head(fields)), Tail(fields))

read_bpb(img, st) ==
    LET common == ReadFields(img, st, CommonFields)
    IN  IF ~common.ok THEN common
        ELSE IF Val(common.boot["sectors_per_fat_16"]) = 0
             THEN ReadFields(img, common, Fat32Fields \o LegacyFields)
             ELSE ReadFields(img, common, LegacyFields)

read_boot_record(img) ==
    LET head == ReadFields(img, Reader0, HeadFields)
        bpb == read_bpb(img, head)
        code == IF ~bpb.ok THEN bpb
                ELSE IF Val(bpb.boot["sectors_per_fat_16"]) = 0
                     THEN ReadFields(img, bpb, BootCode(420))
                     ELSE ReadFields(img, bpb, BootCode(448))
    IN  ReadFields(img, code, SigFields)

(***************************************************************************)
(* FatTable::from_read (module table, not part of src/): the table is the   *)
(* `size' bytes at the stream's position; a stream that ends inside them    *)
(* cannot be loaded.  The table's decoded entries are not modelled.         *)
(***************************************************************************)
FatTable_from_read(len, pos, size) ==
    IF NLeq(NAdd(Bytes(pos, 4), size), Bytes(len, 4))
    THEN [ok |-> TRUE, table |-> [offset |-> pos, size |-> size]]
    ELSE [ok |-> FALSE]

\* the boundary 4085 put on the wrong side
fat_type_from_clusters_inclusive(total_clusters) ==
    IF NLeq(total_clusters, Bytes(4085, 4)) THEN "Fat12"
    ELSE IF NLess(total_clusters, Bytes(65525, 4)) THEN "Fat16"
    ELSE "Fat32"

fat_type_from_clusters(total_clusters) ==
    IF NLess(total_clusters, Bytes(4085, 4)) THEN "Fat12"
    ELSE IF NLess(total_clusters, Bytes(65525, 4)) THEN "Fat16"
    ELSE "Fat32"

\* root_dir_sectors, line 122, in u16: the value, or a panic
root_dir_sectors_u16(root_entries, bytes_per_sector) ==
    LET mul == MulW(Bytes(root_entries, 2), 32, 2)
        dec == SubW(Bytes(bytes_per_sector, 2), Bytes(1, 2), 2)
        sum == AddW(mul.v, dec.v, 2)
    IN  IF Panics(mul) \/ Panics(dec) \/ Panics(sum) \/ bytes_per_sector = 0
        THEN [panic |-> TRUE]
        ELSE [panic |-> FALSE, v |-> DivW(sum.v, bytes_per_sector, 2)]

\* fat_offset, line 128, in u16
fat_offset_u16(reserved_sectors, bytes_per_sector) ==
    MulW(Bytes(reserved_sectors, 2), bytes_per_sector, 2)

\* the sum of lines 123 and 124, in u32:
\* reserved_sectors + (fats * sectors_per_fat) + root_dir_sectors
first_data_sector_u32(reserved_sectors, fats, sectors_per_fat, root_dir_sectors) ==
    LET mul == MulW(sectors_per_fat, fats, 4)
        s1 == AddW(Bytes(reserved_sectors, 4), mul.v, 4)
        s2 == AddW(s1.v, Trunc(root_dir_sectors, 4), 4)
    IN  [v |-> s2.v, ovf |-> mul.ovf \/ s1.ovf \/ s2.ovf]

\* only the first signature byte compared
valid_signature_first_byte(boot) == boot["boot_sig"][1] = 85

\* the signature not compared at all
valid_signature_unchecked(boot) == TRUE

\* the signature test of line 116 (negated there)
valid_signature(boot) == boot["boot_sig"] = <<85, 170>>

NoFs == [kind |-> "none"]

(***************************************************************************)
(* FatFileSystem::new, statement by statement.  Each step takes the call's  *)
(* state so far (the stream, the seeks made on it, the locals assigned) and *)
(* returns it with the statement's effect; a step that returns an error or  *)
(* panics ends the call, and the later steps pass its outcome through.      *)
(***************************************************************************)
Stop(st, kind, error) ==
    [kind |-> kind, error |-> error, pos |-> st.pos, seeks |-> st.seeks]

\* line 115: let boot = Self::read_boot_record(&mut *rdr)?;
new_115(img) ==
    LET rd == read_boot_record(StreamBytes(img))
        st == [kind |-> "run", img |-> img, pos |-> rd.pos, seeks |-> << >>]
    IN  IF rd.ok THEN st @@ [boot |-> rd.boot] ELSE Stop(st, "Err", "UnexpectedEof")

\* lines 116-118: the signature
new_116(st) ==
    IF st.kind # "run" THEN st
    ELSE IF valid_signature(st.boot) THEN st
    ELSE Stop(st, "Err", "invalid signature")

\* lines 120-121: total_sectors and sectors_per_fat, each from its 16-bit
\* field unless that is 0
new_120(st) ==
    IF st.kind # "run" THEN st
    ELSE st @@ [total_sectors |->
                    IF Val(st.boot["total_sectors_16"]) = 0
                    THEN st.boot["total_sectors_32"]
                    ELSE Trunc(st.boot["total_sectors_16"], 4),
                sectors_per_fat |->
                    IF Val(st.boot["sectors_per_fat_16"]) = 0
                    THEN st.boot["sectors_per_fat_32"]
                    ELSE Trunc(st.boot["sectors_per_fat_16"], 4)]

\* line 122: root_dir_sectors
new_122(st) ==
    IF st.kind # "run" THEN st
    ELSE LET rds == root_dir_sectors_u16(Val(st.boot["root_entries"]),
                                         Val(st.boot["bytes_per_sector"]))
         IN  IF rds.panic THEN Stop(st, "Panic", "line 122")
             ELSE st @@ [root_dir_sectors |-> Trunc(rds.v, 4)]

\* line 123: first_data_sector
new_123(st) ==
    IF st.kind # "run" THEN st
    ELSE LET fds == first_data_sector_u32(Val(st.boot["reserved_sectors"]),
                        Val(st.boot["fats"]), st.sectors_per_fat, st.root_dir_sectors)
         IN  IF Panics(fds) THEN Stop(st, "Panic", "line 123")
             ELSE st @@ [first_data_sector |-> fds.v]

\* line 124: data_sectors (the subtrahend is line 123's sum, computed again)
new_124(st) ==
    IF st.kind # "run" THEN st
    ELSE LET data_sectors == SubW(st.total_sectors, st.first_data_sector, 4)
         IN  IF Panics(data_sectors) THEN Stop(st, "Panic", "line 124")
             ELSE st @@ [data_sectors |-> data_sectors.v]

\* lines 125-126: total_clusters and fat_type
new_125(st) ==
    IF st.kind # "run" THEN st
    ELSE IF Val(st.boot["sectors_per_cluster"]) = 0 THEN Stop(st, "Panic", "line 125")
    ELSE LET total_clusters ==
                 DivW(st.data_sectors, Val(st.boot["sectors_per_cluster"]), 4)
         IN  st @@ [total_clusters |-> total_clusters,
                    fat_type |-> fat_type_from_clusters(total_clusters)]

\* lines 128-129: fat_offset, and the seek to it
new_128(st) ==
    IF st.kind # "run" THEN st
    ELSE LET fat_offset == fat_offset_u16(Val(st.boot["reserved_sectors"]),
                                          Val(st.boot["bytes_per_sector"]))
         IN  IF Panics(fat_offset) THEN Stop(st, "Panic", "line 128")
             ELSE [st EXCEPT !.pos = Val(fat_offset.v),
                             !.seeks = Append(st.seeks, Val(fat_offset.v))]

\* lines 130-131: fat_size, and the table read at the stream's position
new_130(st) ==
    IF st.kind # "run" THEN st
    ELSE LET fat_size == MulW(st.sectors_per_fat, Val(st.boot["bytes_per_sector"]), 4)
             table == FatTable_from_read(st.img.len, st.pos, fat_size.v)
         IN  IF Panics(fat_size) THEN Stop(st, "Panic", "line 130")
             ELSE IF ~table.ok THEN Stop(st, "Err", "table")
             ELSE st @@ [table |-> table.table]

\* the fields of the boot record the model of FatSharedState keeps
BpbFields == {CommonFields[i].name : i \in 1..Len(CommonFields)}
             \cup {"sectors_per_fat_32", "root_dir_first_cluster", "volume_id"}

\* lines 133-144: the FatSharedState built from the locals (with the locals
\* new drops, kept for the record)
new_133(st) ==
    IF st.kind # "run" THEN st
    ELSE [kind |-> "Ok",
          seeks |-> st.seeks,
          fat_type |-> st.fat_type,
          boot |-> [n \in BpbFields |-> st.boot[n]],
          first_data_sector |-> st.first_data_sector,
          root_dir_sectors |-> st.root_dir_sectors,
          table |-> st.table,
          total_sectors |-> st.total_sectors,
          sectors_per_fat |-> st.sectors_per_fat,
          data_sectors |-> st.data_sectors,
          total_clusters |-> st.total_clusters]

\* FatFileSystem::new on the stream img: the value returned (or the panic),
\* with the seeks made on the stream and the table read from it
new(img) ==
    new_133(new_130(new_128(new_125(new_124(new_123(new_122(new_120(new_116(
        new_115(img))))))))))

\* FatSharedState::sector_from_cluster, in u32: the sector, or a panic
sector_from_cluster(fs, cluster) ==
    LET dec == SubW(cluster, Bytes(2, 4), 4)
        mul == MulW(dec.v, Val(fs.boot["sectors_per_cluster"]), 4)
        sum == AddW(mul.v, fs.first_data_sector, 4)
    IN  IF Panics(dec) \/ Panics(mul) \/ Panics(sum)
        THEN [kind |-> "Panic"]
        ELSE [kind |-> "Ok", v |-> sum.v]

\* FatSharedState::offset_from_sector, in u64 (no overflow: u32 times u16)
offset_from_sector(fs, sector) ==
    Trunc(NMul(Trunc(sector, 8), Val(fs.boot["bytes_per_sector"])), 8)

NoQuery == [kind |-> "none"]

\* the clusters sector_from_cluster is asked about on an open filesystem
ClusterInputs(fs) ==
    {Bytes(0, 4), Bytes(2, 4), Bytes(3, 4), fs.total_clusters,
     NSubMod(fs.total_clusters, Bytes(1, 4), 4), NSubMod(fs.total_clusters, Bytes(2, 4), 4)}

InitOpen ==
    /\ profile \in Profiles
    /\ image \in Images
    /\ opened = NoFs
    /\ query = NoQuery
    /\ stream = << >>
    /\ rdr_pos = 0
    /\ rdr_by = 0
    /\ slices = << >>
    /\ last = [op |-> "none"]

\* FatFileSystem::new(&mut image)
Open ==
    /\ opened.kind = "none"
    /\ opened' = new(image)
    /\ UNCHANGED <<profile, image, query, slvars>>

\* state.sector_from_cluster(cluster) on the open filesystem
SectorFromCluster ==
    /\ opened.kind = "Ok"
    /\ \E cluster \in ClusterInputs(opened) :
          query' = [kind |-> "sector_from_cluster", cluster |-> cluster,
                    res |-> sector_from_cluster(opened, cluster)]
    /\ UNCHANGED <<profile, image, opened, slvars>>

NextOpen == Open \/ SectorFromCluster

SpecOpen == InitOpen /\ [][NextOpen]_vars

(***************************************************************************)
(* FatSlice.  begin, size and offset are u64 in the code; the slices of the *)
(* model are a few bytes long, so the three are plain integers, and only    *)
(* seek's argument, which the caller chooses freely, is a 64-bit word:      *)
(* SeekFrom::Start carries a u64, Current and End an i64 in two's           *)
(* complement.  The backing stream is state.rdr, an in-memory byte stream:  *)
(* it can be sought anywhere and reads what lies between its position and   *)
(* its end.                                                                 *)
(***************************************************************************)
MaxSize == 2
Slices == {1, 2}

\* FatSlice::new(begin, size, state)
FatSlice_new(begin, size) == [begin |-> begin, size |-> size, offset |-> 0]

\* a slice begins at the stream's start or one byte in, and is up to MaxSize
\* bytes long; the stream holds MaxSize bytes, so that a window ends before
\* the stream's end, at it, or one byte past it
Windows == {[begin |-> b, size |-> n] : b \in {0, 1}, n \in 0..MaxSize}

\* the two readers: the first over any window, the second over the whole
\* stream
SliceSets ==
    {[s \in Slices |-> IF s = 1 THEN FatSlice_new(w.begin, w.size)
                                ELSE FatSlice_new(0, MaxSize)] : w \in Windows}
StreamBytesOfSlices == [i \in 1..MaxSize |-> 16 + i]

\* buffer lengths: empty, one byte, the longest window's size, and longer
\* than any window
BufLens == {0, 1, MaxSize, MaxSize + 1}

\* the i64 (two's complement) of a small integer
I64(k) == IF k >= 0 THEN Bytes(k, 8) ELSE NSubMod(Zeros(8), Bytes(-k, 8), 8)
I64Max == <<255, 255, 255, 255, 255, 255, 255, 127>>

\* new_offset < 0, for an i64
Negative(a) == a[8] >= 128

\* a + b in i64: the wrapped sum and whether the exact sum left the i64 range
AddI64(a, b) ==
    LET s == Trunc(NAdd(a, b), 8)
    IN  [v |-> s, ovf |-> Negative(a) = Negative(b) /\ Negative(s) # Negative(a)]

\* the arguments seek is called with: one byte back (as u64: 2^64 - 1), no
\* move, one byte on, the longest window's size, one past it, and the
\* largest i64
SeekArgs == {I64(k) : k \in {-1, 0, 1, MaxSize, MaxSize + 1}} \cup {I64Max}
Whences == {"Start", "Current", "End"}

\* the offset test of line 274 with its bound one byte past the window's end
seek_accepts_one_past(new_offset, size) ==
    ~Negative(new_offset) /\ NLeq(new_offset, Bytes(size + 1, 8))

\* the test of line 274, negated: new_offset >= 0 and new_offset as u64 <= size
seek_accepts(new_offset, size) ==
    ~Negative(new_offset) /\ NLeq(new_offset, Bytes(size, 8))

\* FatSlice::seek(pos): the slice afterwards and the value returned
FatSlice_seek(sl, whence, x) ==
    LET sum == IF whence = "Current" THEN AddI64(Bytes(sl.offset, 8), x)
               ELSE IF whence = "End" THEN AddI64(Bytes(sl.size, 8), x)
               ELSE [v |-> x, ovf |-> FALSE]
    IN  IF Panics(sum) THEN [slice |-> sl, res |-> [kind |-> "Panic"]]
        ELSE IF ~seek_accepts(sum.v, sl.size)
        THEN [slice |-> sl, res |-> [kind |-> "Err", error |-> "invalid seek"]]
        ELSE [slice |-> [sl EXCEPT !.offset = Val(sum.v)],
              res |-> [kind |-> "Ok", v |-> Val(sum.v)]]

\* the read size without the window's bound
read_size_unbounded(sl, buf_len) == buf_len

\* line 258: cmp::min((self.size - self.offset) as usize, buf.len())
read_size(sl, buf_len) == Min(sl.size - sl.offset, buf_len)

\* the stream position a read starts at when it does not seek first
read_start_unsought(sl, pos) == pos

\* lines 257 and 260: the stream is sought to begin + offset, wherever it was
read_start(sl, pos) == sl.begin + sl.offset

\* what the in-memory stream can serve of a read of n bytes at position pos
Available(n, pos) == Min(n, Max(0, Len(stream) - pos))

\* FatSlice::read(buf) with a buffer of buf_len bytes, the stream at position
\* pos before the call.  io is the stream's behaviour: it fails the seek, or
\* fails the read, or serves io.n bytes.  Returns the slice and the stream's
\* position afterwards, the value returned and the bytes put in buf.
FatSlice_read(sl, buf_len, pos, io) ==
    LET start == read_start(sl, pos)
    IN  IF io.kind = "seek fails"
        THEN [slice |-> sl, pos |-> pos, res |-> [kind |-> "Err", error |-> "io"],
              data |-> << >>]
        ELSE IF io.kind = "read fails"
        THEN [slice |-> sl, pos |-> start, res |-> [kind |-> "Err", error |-> "io"],
              data |-> << >>]
        ELSE [slice |-> [sl EXCEPT !.offset = sl.offset + io.n],
              pos |-> start + io.n,
              res |-> [kind |-> "Ok", v |-> io.n],
              data |-> SubSeq(stream, start + 1, start + io.n)]

InitSlice ==
    /\ profile \in Profiles
    /\ image = [len |-> 0]
    /\ opened = NoFs
    /\ query = NoQuery
    /\ stream = StreamBytesOfSlices
    /\ rdr_pos = 0
    /\ rdr_by = 0
    /\ slices \in SliceSets
    /\ last = [op |-> "none"]

\* the effect of a read of slice s that the stream answers with io
DoRead(s, buf_len, io) ==
    LET r == FatSlice_read(slices[s], buf_len, rdr_pos, io)
    IN  /\ slices' = [slices EXCEPT ![s] = r.slice]
        /\ rdr_pos' = r.pos
        /\ rdr_by' = IF io.kind = "seek fails" THEN rdr_by ELSE s
        /\ last' = [op |-> "read", slice |-> s, buf_len |-> buf_len,
                    before |-> slices[s].offset,
                    from |-> IF rdr_pos = slices[s].begin + slices[s].offset
                             THEN 0 ELSE rdr_by,
                    res |-> r.res, data |-> r.data]
        /\ UNCHANGED <<profile, fsvars, stream>>

\* slices[s].read(buf), the stream serving all it holds of the bytes asked for
Read ==
    \E s \in Slices, buf_len \in BufLens :
        DoRead(s, buf_len,
               [kind |-> "serves",
                n |-> Available(read_size(slices[s], buf_len),
                                read_start(slices[s], rdr_pos))])

\* slices[s].read(buf), the stream serving fewer bytes than it holds
ReadCutShort ==
    \E s \in Slices, buf_len \in BufLens :
        \E n \in 1..(Available(read_size(slices[s], buf_len),
                               read_start(slices[s], rdr_pos)) - 1) :
            DoRead(s, buf_len, [kind |-> "serves", n |-> n])

\* slices[s].read(buf), the stream failing the seek or the read
ReadFails ==
    \E s \in Slices, buf_len \in BufLens, kind \in {"seek fails", "read fails"} :
        DoRead(s, buf_len, [kind |-> kind])

\* slices[s].seek(pos)
Seek ==
    \E s \in Slices, whence \in Whences, x \in SeekArgs :
        LET r == FatSlice_seek(slices[s], whence, x)
        IN  /\ slices' = [slices EXCEPT ![s] = r.slice]
            /\ last' = [op |-> "seek", slice |-> s, whence |-> whence, x |-> x,
                        before |-> slices[s].offset, res |-> r.res]
            /\ UNCHANGED <<profile, fsvars, stream, rdr_pos, rdr_by>>

NextSlice == Read \/ Seek

\* the slices over a stream that serves every read in full and never fails
SpecSlice == InitSlice /\ [][NextSlice]_vars

NextSliceFaulty == Read \/ ReadCutShort \/ ReadFails \/ Seek

\* the slices over a stream that may cut a read short or fail it
SpecSliceFaulty == InitSlice /\ [][NextSliceFaulty]_vars

(***************************************************************************)
(* Claims about FatFileSystem::new and the geometry, under SpecOpen.       *)
(***************************************************************************)
Called == opened.kind # "none"

\* C3: fat_type_from_clusters depends on the cluster count alone, with the
\* boundaries at 4085 and 65525: the fat_type new stores is Fat12 exactly
\* when data_sectors / sectors_per_cluster < 4085, Fat16 exactly when it is
\* at least 4085 and below 65525, and Fat32 exactly when it is at least 65525.
C3_FatTypeByClusterCount ==
    opened.kind = "Ok" =>
        LET count == NDiv(opened.data_sectors, Val(opened.boot["sectors_per_cluster"]))
            Below(n) == NLess(count, Bytes(n, 4))
        IN  /\ (opened.fat_type = "Fat12") = Below(4085)
            /\ (opened.fat_type = "Fat16") = (~Below(4085) /\ Below(65525))
            /\ (opened.fat_type = "Fat32") = ~Below(65525)
            /\ opened.fat_type \in {"Fat12", "Fat16", "Fat32"}

\* a filesystem of exactly 4085 clusters was opened, as Fat16
C3_Witness ==
    /\ opened.kind = "Ok"
    /\ opened.total_clusters = Bytes(4085, 4)
    /\ opened.fat_type = "Fat16"

\* C4: when bytes 510 and 511 of the stream are not 0x55, 0xAA, new returns
\* the "invalid signature" error, having made no seek, derived no geometry
\* and loaded no table: the outcome holds the error alone.
C4_InvalidSignatureStopsOpen ==
    LET b == StreamBytes(image)
    IN  (Called /\ Len(b) >= 512 /\ <<b[511], b[512]>> # <<85, 170>>) =>
            opened = [kind |-> "Err", error |-> "invalid signature",
                      pos |-> 512, seeks |-> << >>]

\* new was called on a full first sector whose signature is 0x55, 0x00
C4_Witness ==
    /\ opened.kind = "Err"
    /\ opened.error = "invalid signature"
    /\ image.len >= 512
    /\ image.sig = <<85, 0>>

\* C8: on a stream shorter than 512 bytes new returns an error, whatever
\* field the stream ends in.
C8_TruncatedBootSectorFails ==
    (Called /\ image.len < 512) => opened.kind = "Err"

\* new was called on a stream of 511 bytes: the signature is read with an
\* unchecked partial read, and the open fails on the signature
C8_Witness ==
    /\ image.len = 511
    /\ opened.kind = "Err"
    /\ opened.error = "invalid signature"

\* C9: for every root-entry count and every nonzero bytes-per-sector, line
\* 122 yields ceil(root_entries * 32 / bytes_per_sector): it does not panic,
\* and the root_dir_sectors of the opened filesystem is that number.
C9_RootDirSectorsIsCeiling ==
    LET root_entries == image.bpb.root_entries
        bytes_per_sector == image.bpb.bytes_per_sector
    IN  (Called /\ bytes_per_sector # 0) =>
            /\ ~(opened.kind = "Panic" /\ opened.error = "line 122")
            /\ opened.kind = "Ok" =>
                  Val(opened.root_dir_sectors) =
                      (root_entries * 32 + bytes_per_sector - 1) \div bytes_per_sector

\* C10: after a valid boot record new seeks once, to reserved_sectors *
\* bytes_per_sector, and loads sectors_per_fat * bytes_per_sector bytes from
\* there, for every value of the three fields: line 128 does not panic, and
\* the opened filesystem's table is that region.
C10_TableRegionOfFirstCopy ==
    LET reserved_sectors == image.bpb.reserved_sectors
        bytes_per_sector == image.bpb.bytes_per_sector
        sectors_per_fat == IF image.bpb.sectors_per_fat_16 = 0
                           THEN image.bpb.sectors_per_fat_32
                           ELSE Bytes(image.bpb.sectors_per_fat_16, 4)
    IN  /\ ~(opened.kind = "Panic" /\ opened.error \in {"line 128", "line 130"})
        /\ opened.kind = "Ok" =>
              /\ opened.seeks = <<reserved_sectors * bytes_per_sector>>
              /\ opened.table.offset = reserved_sectors * bytes_per_sector
              /\ NEq(opened.table.size, NMul(sectors_per_fat, bytes_per_sector))

\* C5: on an opened filesystem, for 2 <= c < total_clusters,
\* sector_from_cluster(c) is (c - 2) * sectors_per_cluster +
\* first_data_sector without wrap-around, and
\* (sector - first_data_sector) / sectors_per_cluster + 2 is c again.
C5_ClusterSectorRoundTrip ==
    (/\ query.kind = "sector_from_cluster"
     /\ NLeq(Bytes(2, 4), query.cluster)
     /\ NLess(query.cluster, opened.total_clusters)) =>
        LET spc == Val(opened.boot["sectors_per_cluster"])
            exact == NAdd(NMul(NSubMod(query.cluster, Bytes(2, 4), 4), spc),
                          opened.first_data_sector)
        IN  /\ query.res.kind = "Ok"
            /\ NEq(query.res.v, exact)
            /\ NEq(NAdd(NDiv(NSubMod(query.res.v, opened.first_data_sector, 4), spc),
                        Bytes(2, 4)),
                   query.cluster)

(***************************************************************************)
(* Claims about FatSlice, under SpecSlice and SpecSliceFaulty.             *)
(***************************************************************************)

\* C1: seek(Start(x)), seek(Current(x)) and seek(End(x)) on a slice of size N
\* with cursor o have the target t = x, o + x and N + x, taken as exact
\* integers; the call returns Ok(t) and leaves the cursor at t exactly when
\* 0 <= t <= N, and otherwise returns the "invalid seek" error and leaves the
\* cursor where it was.
C1_SeekContract ==
    last.op = "seek" =>
        LET sl == slices[last.slice]
            x == last.x
            base == IF last.whence = "Current" THEN last.before
                    ELSE IF last.whence = "End" THEN sl.size
                    ELSE 0
            down == last.whence # "Start" /\ Negative(x)
            back == NSubMod(Zeros(8), x, 8)
            legal == IF down THEN NLeq(back, Bytes(base, 8))
                     ELSE NLeq(NAdd(Bytes(base, 8), x), Bytes(sl.size, 8))
            t == IF down THEN base - Val(back) ELSE base + Val(x)
        IN  IF legal
            THEN last.res = [kind |-> "Ok", v |-> t] /\ sl.offset = t
            ELSE /\ last.res = [kind |-> "Err", error |-> "invalid seek"]
                 /\ sl.offset = last.before

\* C2: a read of a slice whose window lies inside the stream, made with the
\* cursor at the slice's size, returns Ok(0) whatever the buffer, puts no
\* byte in it and leaves the cursor at the size.
C2_ExhaustedSliceReadsZero ==
    (/\ last.op = "read"
     /\ last.before = slices[last.slice].size
     /\ slices[last.slice].begin + slices[last.slice].size <= Len(stream)) =>
        /\ last.res = [kind |-> "Ok", v |-> 0]
        /\ last.data = << >>
        /\ slices[last.slice].offset = slices[last.slice].size

\* a slice of one byte that ends before the stream's end was read at its end
\* with the longest buffer
C2_Witness ==
    /\ last.op = "read"
    /\ slices[last.slice] = [begin |-> 0, size |-> 1, offset |-> 1]
    /\ last.before = 1
    /\ last.buf_len = MaxSize + 1
    /\ last.res = [kind |-> "Ok", v |-> 0]

\* C6: every read of a slice, whichever reader used the stream before it and
\* wherever that left the stream, returns the bytes of the stream that start
\* at the slice's own begin + offset, as many as the buffer, the window and
\* the stream allow; it ends inside [begin, begin + size), advances the
\* slice's own offset by the bytes returned and leaves every other slice as
\* it was.
C6_ReadersDoNotInterfere ==
    [][(last'.op = "read" /\ last'.res.kind = "Ok") =>
          LET s == last'.slice
              start == slices[s].begin + slices[s].offset
              n == last'.res.v
          IN  /\ n = Min(Min(last'.buf_len, slices[s].size - slices[s].offset),
                         Max(0, Len(stream) - start))
              /\ last'.data = SubSeq(stream, start + 1, start + n)
              /\ start + n <= slices[s].begin + slices[s].size
              /\ slices'[s] = [slices[s] EXCEPT !.offset = slices[s].offset + n]
              /\ \A t \in Slices \ {s} : slices'[t] = slices[t]]_vars

\* a read returned bytes although the other reader's read had left the stream
\* somewhere else, and both cursors are inside their windows
C6_Witness ==
    /\ last.op = "read"
    /\ last.from \notin {0, last.slice}
    /\ Len(last.data) > 0
    /\ \A s \in Slices : slices[s].offset > 0

\* C7: every slice has 0 <= offset <= size in every state, whatever reads and
\* seeks were made and however the stream answered them.
C7_OffsetWithinWindow ==
    \A s \in Slices : 0 <= slices[s].offset /\ slices[s].offset <= slices[s].size

\* the stream cut a read short: it served fewer bytes than the window and the
\* buffer asked for and than it holds
C7_Witness ==
    /\ last.op = "read"
    /\ last.res.kind = "Ok"
    /\ last.res.v > 0
    /\ last.res.v < Min(last.buf_len, slices[last.slice].size - last.before)
    /\ slices[last.slice].begin + last.before + last.res.v < Len(stream)

=============================================================================
